---- MODULE Spec2Model ----
(***************************************************************************)
(* pandas2redshift: staged bulk load of a DataFrame into a Redshift table. *)
(*                                                                         *)
(* The model follows src/pandas2redshift/pandas2redshift.py.  A caller     *)
(* (a thread or process of the client program) runs one public operation   *)
(* at a time: insert, copy or create_table.  Every blocking call to a      *)
(* collaborator (the S3 client, the SQLAlchemy connection) is one atomic   *)
(* step, so that concurrent callers interleave between those calls.        *)
(*                                                                         *)
(* Collaborators.  A call to the S3 client or to the connection either     *)
(* returns, and then its effect has taken place, or raises, and then it    *)
(* has had no effect.  The warehouse rejects TRUNCATE and COPY of a        *)
(* missing table, CREATE TABLE of an existing table and CREATE TABLE       *)
(* with an empty column list; every call may also raise for a reason of    *)
(* its own (transport, permission, malformed rows).  uuid.uuid4() is       *)
(* modelled by its contract: a value that no earlier call has returned.    *)
(***************************************************************************)
EXTENDS Naturals, Sequences, FiniteSets, TLC

\* ------------------------------------------------------------------ bounds
MaxCalls == 2            \* operations started in one behaviour
MaxCols == 2             \* columns of a type-mapper input

\* Two callers: the client program runs up to two operations at a time.
Callers == {"c1", "c2"}
UUIDs == 1 .. MaxCalls   \* values uuid4 can return; one per call suffices

None == "None"

\* ------------------------------------------------------- pandas dtypes
\* A dtype object, and str(dtype) as pandas/numpy print it.
Dtypes ==
    { [kind |-> "i", bits |-> 64], [kind |-> "i", bits |-> 32],
      [kind |-> "i", bits |-> 16],
      [kind |-> "f", bits |-> 64], [kind |-> "f", bits |-> 32],
      [kind |-> "O", bits |-> 0],  [kind |-> "b", bits |-> 8],
      [kind |-> "M", bits |-> 64], [kind |-> "MUTC", bits |-> 64],
      [kind |-> "m", bits |-> 64], [kind |-> "category", bits |-> 0] }

DtypeStr(d) ==
    CASE d.kind = "i" /\ d.bits = 64 -> "int64"
      [] d.kind = "i" /\ d.bits = 32 -> "int32"
      [] d.kind = "i" /\ d.bits = 16 -> "int16"
      [] d.kind = "f" /\ d.bits = 64 -> "float64"
      [] d.kind = "f" /\ d.bits = 32 -> "float32"
      [] d.kind = "O" -> "object"
      [] d.kind = "b" -> "bool"
      [] d.kind = "M" -> "datetime64[ns]"
      [] d.kind = "MUTC" -> "datetime64[ns, UTC]"
      [] d.kind = "m" -> "timedelta64[ns]"
      [] d.kind = "category" -> "category"

\* ------------------------------------------------------- the type mapper
DTYPE_MAPPING ==
    ("int64" :> "BIGINT") @@
    ("int32" :> "INTEGER") @@
    ("float64" :> "DOUBLE PRECISION") @@
    ("float32" :> "REAL") @@
    ("object" :> "VARCHAR(MAX)") @@
    ("bool" :> "BOOLEAN") @@
    ("datetime64[ns]" :> "TIMESTAMP") @@
    ("timedelta[ns]" :> "INTERVAL") @@
    ("category" :> "VARCHAR(MAX)") @@
    ("datetime64[ns, UTC]" :> "TIMESTAMPTZ")

\* DTYPE_MAPPING.get(s, default)
MappingGet(s, default) ==
    IF s \in DOMAIN DTYPE_MAPPING THEN DTYPE_MAPPING[s] ELSE default

\* A dict is a sequence of <<key, value>> pairs in insertion order.
pandas_to_redshift_datatypes(dataframe_schema) ==
    [ i \in 1 .. Len(dataframe_schema) |->
        << dataframe_schema[i][1],
           MappingGet(DtypeStr(dataframe_schema[i][2]), "VARCHAR(MAX)") >> ]

\* ------------------------------------------------------------ call inputs
int64 == [kind |-> "i", bits |-> 64]
object == [kind |-> "O", bits |-> 0]
bool == [kind |-> "b", bits |-> 8]

\* data.dtypes.to_dict() of the DataFrames callers pass
DataFrames ==
    { << <<"id", int64>>, <<"name", object>>, <<"active", bool>> >> }

\* An optional argument: given = FALSE is Python's None.
Nothing == [given |-> FALSE, val |-> << >>]
Some(v) == [given |-> TRUE, val |-> v]
Falsy(opt) == ~opt.given \/ opt.val = << >>

\* table_data_types / data_types arguments callers pass
ExplicitTypes ==
    { << >>, << <<"name", "VARCHAR(64)">>, <<"id", "INTEGER">> >> }

BucketRoots == { None, "stage" }
TableName == "t"

\* A storage key "[root/]table-hex"; root = "" when there is no prefix.
NoKey == [root |-> "", name |-> "", hex |-> 0]

\* insert reads table_data_types only under ensure_exists, and hands
\* aws_bucket_root to copy as it is
InsertArgs ==
    { a \in [ op : {"insert"}, data : DataFrames, aws_bucket_root : {None},
              ensure_exists : BOOLEAN, truncate_table : BOOLEAN,
              table_data_types : {Nothing} \cup {Some(t) : t \in ExplicitTypes} ] :
        a.table_data_types.given => a.ensure_exists }

CopyArgs ==
    [ op : {"copy"}, data : DataFrames, aws_bucket_root : BucketRoots,
      ensure_exists : {FALSE}, truncate_table : {FALSE},
      table_data_types : {Nothing} ]

CreateTableArgs ==
    [ op : {"create_table"}, data : { << >> }, aws_bucket_root : {None},
      ensure_exists : {FALSE}, truncate_table : {FALSE},
      table_data_types : {Some(t) : t \in ExplicitTypes} ]

NoArgs ==
    [ op |-> "none", data |-> << >>, aws_bucket_root |-> None,
      ensure_exists |-> FALSE, truncate_table |-> FALSE,
      table_data_types |-> Nothing ]

\* ------------------------------------------------------------------ state
VARIABLES
    pc,                 \* caller -> the collaborator call it is about to make
    args,               \* caller -> arguments of its running operation
    table_data_types,   \* caller -> the data_types handed to create_table
    aws_bucket_path,    \* caller -> the key upload_to_s3 returned
    result,             \* caller -> how its operation ended
    events,             \* caller -> collaborator calls of its operation, in order
    tableDef,           \* warehouse catalog: the target table
    schemaExists,       \* warehouse catalog: the target schema
    rows,               \* contents of the target table: the objects copied in
    bucket,             \* the S3 bucket: a set of objects
    issued,             \* values uuid4 has returned
    staged,             \* keys upload_to_s3 has returned
    uploads,            \* calls of upload_to_s3 that have returned
    calls,              \* operations started so far
    dataframe_schema,   \* type mapper alone: its input
    mapped,             \* type mapper alone: its output
    earlier             \* caller -> the failed insert it is repeating

vars ==
    << pc, args, table_data_types, aws_bucket_path, result, events, tableDef,
       schemaExists, rows, bucket, issued, staged, uploads, calls,
       dataframe_schema,
       mapped, earlier >>

warehouseVars == << tableDef, schemaExists, rows >>
mapperVars == << dataframe_schema, mapped >>

NoTable == [exists |-> FALSE, cols |-> << >>]
Table(cols) == [exists |-> TRUE, cols |-> cols]
OldTable == Table(<< <<"id", "BIGINT">> >>)

NoResult == [status |-> "none", step |-> "", why |-> ""]
Ok == [status |-> "ok", step |-> "", why |-> ""]
Error(step, why) == [status |-> "error", step |-> step, why |-> why]

\* One collaborator call: what was called, whether it returned, the error
\* or answer, and the key and columns it was called with.
Event(kind, ok, note, key, cols) ==
    [kind |-> kind, ok |-> ok, note |-> note, key |-> key, cols |-> cols]

\* No earlier invocation: the caller is not repeating an insert.
NoEarlier == [made |-> FALSE, events |-> << >>, result |-> NoResult]

InitCallers ==
    /\ pc = [p \in Callers |-> "idle"]
    /\ args = [p \in Callers |-> NoArgs]
    /\ table_data_types = [p \in Callers |-> << >>]
    /\ aws_bucket_path = [p \in Callers |-> NoKey]
    /\ result = [p \in Callers |-> NoResult]
    /\ events = [p \in Callers |-> << >>]
    /\ tableDef \in {NoTable, OldTable}
    /\ schemaExists \in BOOLEAN
    /\ tableDef.exists => schemaExists
    /\ rows = {}
    /\ bucket = {}
    /\ issued = {}
    /\ staged = {}
    /\ uploads = 0
    /\ calls = 0
    /\ earlier = [p \in Callers |-> NoEarlier]

Init ==
    /\ InitCallers
    /\ dataframe_schema = << >>
    /\ mapped = Nothing

\* ------------------------------------------------------- SQL statements
Stmt(verb, if_not_exists, cols, from) ==
    [verb |-> verb, if_not_exists |-> if_not_exists, cols |-> cols, from |-> from]

\* insert: TRUNCATE TABLE schema.table
TRUNCATE_QUERY == Stmt("TRUNCATE TABLE", FALSE, << >>, NoKey)

\* create_table: CREATE SCHEMA IF NOT EXISTS schema
CREATE_SCHEMA_QUERY == Stmt("CREATE SCHEMA", TRUE, << >>, NoKey)

\* Mutant: the items of data_types are joined last to first.
column_definitions_reversed(data_types) ==
    [ i \in 1 .. Len(data_types) |->
        << data_types[Len(data_types) + 1 - i][1],
           data_types[Len(data_types) + 1 - i][2] >> ]

\* create_table: "key val" for every item of data_types, in its order
column_definitions(data_types) ==
    [ i \in 1 .. Len(data_types) |-> << data_types[i][1], data_types[i][2] >> ]

\* Mutant: CREATE TABLE IF NOT EXISTS.
CREATE_TABLE_QUERY_IfNotExists(data_types) ==
    Stmt("CREATE TABLE", TRUE, column_definitions(data_types), NoKey)

\* create_table: CREATE TABLE schema.table (column_definitions)
CREATE_TABLE_QUERY(data_types) ==
    Stmt("CREATE TABLE", FALSE, column_definitions(data_types), NoKey)

\* Mutant: COPY names the table's prefix, not the key upload_to_s3 returned.
COPY_QUERY_NoSuffix(bucket_path) ==
    Stmt("COPY", FALSE, << >>, [bucket_path EXCEPT !.hex = 0])

\* copy: COPY schema.table FROM 'bucket/aws_bucket_path' ...
COPY_QUERY(bucket_path) == Stmt("COPY", FALSE, << >>, bucket_path)

\* The warehouse's reason to reject a statement, "" when it has none.
Rejects(q) ==
    CASE q.verb = "TRUNCATE TABLE" ->
            IF tableDef.exists THEN "" ELSE "UndefinedTable"
      [] q.verb = "CREATE SCHEMA" ->
            IF schemaExists /\ ~q.if_not_exists THEN "DuplicateSchema" ELSE ""
      [] q.verb = "CREATE TABLE" ->
            IF q.cols = << >> THEN "SyntaxError"
            ELSE IF ~schemaExists THEN "InvalidSchemaName"
            ELSE IF tableDef.exists /\ ~q.if_not_exists THEN "DuplicateTable"
            ELSE ""
      [] q.verb = "COPY" ->
            IF ~tableDef.exists THEN "UndefinedTable"
            ELSE IF \A o \in bucket : o.key # q.from THEN "S3ServiceException"
            ELSE ""

\* The warehouse after it has executed a statement.
Executed(q) ==
    /\ tableDef' = IF q.verb = "CREATE TABLE" /\ ~tableDef.exists
                   THEN Table(q.cols) ELSE tableDef
    /\ schemaExists' = (schemaExists \/ q.verb = "CREATE SCHEMA")
    /\ rows' = CASE q.verb = "TRUNCATE TABLE" -> {}
                 [] q.verb = "COPY" -> rows \cup {q.from}
                 [] OTHER -> rows

\* --------------------------------------------------------- control flow
\* Mutant: under ensure_exists insert creates the table without asking
\* whether it exists.
AfterTruncateCreates(a) == IF a.ensure_exists THEN "create_schema" ELSE "upload"

\* insert, after the optional TRUNCATE: the existence check or copy.
AfterTruncate(a) == IF a.ensure_exists THEN "has_table" ELSE "upload"

\* Mutant: insert checks and provisions the table before it would truncate.
FirstCallEnsuresFirst(a) ==
    CASE a.op = "insert" ->
            IF a.ensure_exists THEN "has_table"
            ELSE IF a.truncate_table THEN "truncate" ELSE "upload"
      [] a.op = "copy" -> "upload"
      [] a.op = "create_table" -> "create_schema"

\* The first collaborator call of an operation.
FirstCall(a) ==
    CASE a.op = "insert" ->
            IF a.truncate_table THEN "truncate" ELSE AfterTruncate(a)
      [] a.op = "copy" -> "upload"
      [] a.op = "create_table" -> "create_schema"

\* Mutant: insert always infers the column types from the DataFrame.
InsertDataTypesInferred(a) == pandas_to_redshift_datatypes(a.data)

\* insert: the data_types it hands to create_table.
InsertDataTypes(a) ==
    IF Falsy(a.table_data_types)
    THEN pandas_to_redshift_datatypes(a.data)
    ELSE a.table_data_types.val

\* After create_table returns: insert goes on to copy, create_table is over.
AfterCreate(a) == IF a.op = "insert" THEN "upload" ELSE "done"

\* Mutant: copy deletes the staged object also when COPY raised (a finally).
OnRaiseCleansUp(kind, a) == IF kind = "copy" THEN "delete" ELSE "done"

\* Mutant: insert swallows the error of TRUNCATE and goes on.
OnRaiseSkipsTruncate(kind, a) ==
    IF kind = "truncate" THEN AfterTruncate(a) ELSE "done"

\* Mutant: copy empties the table when the delete of the staged object raised.
OnRaiseCompensates(kind, a) == IF kind = "delete" THEN "truncate" ELSE "done"

\* Mutant: a call that raised is made again.
OnRaiseRetries(kind, a) == kind

\* No operation catches an exception: a collaborator call that raises
\* ends the operation, whatever the call and the arguments.
OnRaise(kind, a) == "done"

\* Mutant: the key is the table name, without the uuid suffix.
_create_bucket_path_no_suffix(table_name, bucket_root, hex) ==
    IF bucket_root \in {None, ""}
    THEN [root |-> "", name |-> table_name, hex |-> 0]
    ELSE [root |-> bucket_root, name |-> table_name, hex |-> 0]

\* upload_to_s3._create_bucket_path; hex is uuid.uuid4().hex
_create_bucket_path(table_name, bucket_root, hex) ==
    IF bucket_root \in {None, ""}
    THEN [root |-> "", name |-> table_name, hex |-> hex]
    ELSE [root |-> bucket_root, name |-> table_name, hex |-> hex]

\* client.upload_fileobj(file, bucket, key): the key now holds body
PutObject(objects, key, body) ==
    {o \in objects : o.key # key} \cup {[key |-> key, body |-> body]}

\* Mutant: the delete request names every object staged for the table.
DeleteObjectsOfTable(objects, key) == {o \in objects : o.key.name # key.name}

\* Mutant: the delete request names another key.
DeleteObjectsOtherKey(objects, key) == objects

\* client.delete_objects(Bucket, Delete={Objects: [{Key: key}]})
DeleteObjects(objects, key) == {o \in objects : o.key # key}

\* ---------------------------------------------------------------- steps
Log(p, e) == events' = [events EXCEPT ![p] = Append(@, e)]

\* The call returned: go on, or return to the caller after the last call.
Goto(p, next) ==
    /\ pc' = [pc EXCEPT ![p] = next]
    /\ result' = [result EXCEPT ![p] =
                    IF next = "done" /\ @.status # "error" THEN Ok ELSE @]

\* The call raised.
Raise(p, kind, why, key, cols) ==
    /\ pc' = [pc EXCEPT ![p] = OnRaise(kind, args[p])]
    /\ result' = [result EXCEPT ![p] =
                    IF @.status = "error" THEN @ ELSE Error(kind, why)]
    /\ Log(p, Event(kind, FALSE, why, key, cols))

\* conn.execute(q): the statement is rejected, fails for a reason of its
\* own, or is executed.
ConnExecute(p, kind, q, next) ==
    \E fail \in BOOLEAN :
        IF Rejects(q) # ""
        THEN Raise(p, kind, Rejects(q), q.from, q.cols) /\ UNCHANGED warehouseVars
        ELSE IF fail
        THEN Raise(p, kind, "Failed", q.from, q.cols) /\ UNCHANGED warehouseVars
        ELSE /\ Executed(q)
             /\ Goto(p, next)
             /\ Log(p, Event(kind, TRUE, "", q.from, q.cols))

\* A caller starts insert, copy or create_table.
Call(p) ==
    /\ pc[p] \in {"idle", "done"}
    /\ calls < MaxCalls
    /\ \E a \in InsertArgs \cup CopyArgs \cup CreateTableArgs :
          /\ args' = [args EXCEPT ![p] = a]
          /\ pc' = [pc EXCEPT ![p] = FirstCall(a)]
          /\ table_data_types' =
                [table_data_types EXCEPT ![p] =
                    IF a.op = "create_table" THEN a.table_data_types.val ELSE << >>]
    /\ aws_bucket_path' = [aws_bucket_path EXCEPT ![p] = NoKey]
    /\ result' = [result EXCEPT ![p] = NoResult]
    /\ events' = [events EXCEPT ![p] = << >>]
    /\ calls' = calls + 1
    /\ UNCHANGED << warehouseVars, bucket, issued, staged, uploads,
                    mapperVars, earlier >>

\* insert: conn.execute(TRUNCATE TABLE schema.table)
Truncate(p) ==
    /\ pc[p] = "truncate"
    /\ ConnExecute(p, "truncate", TRUNCATE_QUERY, AfterTruncate(args[p]))
    /\ UNCHANGED << args, table_data_types, aws_bucket_path, bucket, issued,
                    staged, uploads, calls, mapperVars, earlier >>

\* insert: _exists, sa.inspect(conn).has_table(table, schema)
HasTable(p) ==
    /\ pc[p] = "has_table"
    /\ \E fail \in BOOLEAN :
          IF fail
          THEN Raise(p, "has_table", "Failed", NoKey, << >>)
               /\ UNCHANGED table_data_types
          ELSE IF tableDef.exists
          THEN /\ Log(p, Event("has_table", TRUE, "present", NoKey, << >>))
               /\ Goto(p, "upload")
               /\ UNCHANGED table_data_types
          ELSE /\ Log(p, Event("has_table", TRUE, "absent", NoKey, << >>))
               /\ Goto(p, "create_schema")
               /\ table_data_types' =
                    [table_data_types EXCEPT ![p] = InsertDataTypes(args[p])]
    /\ UNCHANGED << args, aws_bucket_path, warehouseVars, bucket, issued,
                    staged, uploads, calls, mapperVars, earlier >>

\* create_table: conn.execute(CREATE SCHEMA IF NOT EXISTS schema)
CreateSchema(p) ==
    /\ pc[p] = "create_schema"
    /\ ConnExecute(p, "create_schema", CREATE_SCHEMA_QUERY, "create_table")
    /\ UNCHANGED << args, table_data_types, aws_bucket_path, bucket, issued,
                    staged, uploads, calls, mapperVars, earlier >>

\* create_table: conn.execute(CREATE_TABLE_QUERY)
CreateTable(p) ==
    /\ pc[p] = "create_table"
    /\ ConnExecute(p, "create_table", CREATE_TABLE_QUERY(table_data_types[p]),
                   AfterCreate(args[p]))
    /\ UNCHANGED << args, table_data_types, aws_bucket_path, bucket, issued,
                    staged, uploads, calls, mapperVars, earlier >>

\* copy: upload_to_s3
UploadToS3(p) ==
    /\ pc[p] = "upload"
    /\ \E hex \in UUIDs \ issued, fail \in BOOLEAN :
          LET bucket_path ==
                _create_bucket_path(TableName, args[p].aws_bucket_root, hex)
          IN  /\ issued' = issued \cup {hex}
              /\ IF fail
                 THEN /\ Raise(p, "upload", "Failed", bucket_path, << >>)
                      /\ UNCHANGED << bucket, aws_bucket_path, staged, uploads >>
                 ELSE /\ bucket' = PutObject(bucket, bucket_path,
                                        [data |-> args[p].data, by |-> p])
                      /\ aws_bucket_path' = [aws_bucket_path EXCEPT ![p] = bucket_path]
                      /\ staged' = staged \cup {bucket_path}
                      /\ uploads' = uploads + 1
                      /\ Goto(p, "copy")
                      /\ Log(p, Event("upload", TRUE, "", bucket_path, << >>))
    /\ UNCHANGED << args, table_data_types, warehouseVars, calls, mapperVars,
                    earlier >>

\* copy: conn.execute(COPY_QUERY)
Copy(p) ==
    /\ pc[p] = "copy"
    /\ ConnExecute(p, "copy", COPY_QUERY(aws_bucket_path[p]), "delete")
    /\ UNCHANGED << args, table_data_types, aws_bucket_path, bucket, issued,
                    staged, uploads, calls, mapperVars, earlier >>

\* copy: delete_from_s3
DeleteFromS3(p) ==
    /\ pc[p] = "delete"
    /\ LET file_path == aws_bucket_path[p] IN
       \E fail \in BOOLEAN :
          IF fail
          THEN Raise(p, "delete", "Failed", file_path, << >>) /\ UNCHANGED bucket
          ELSE /\ bucket' = DeleteObjects(bucket, file_path)
               /\ Goto(p, "done")
               /\ Log(p, Event("delete", TRUE, "", file_path, << >>))
    /\ UNCHANGED << args, table_data_types, aws_bucket_path, warehouseVars,
                    issued, staged, uploads, calls, mapperVars, earlier >>

Step(p) ==
    \/ Call(p)
    \/ Truncate(p)
    \/ HasTable(p)
    \/ CreateSchema(p)
    \/ CreateTable(p)
    \/ UploadToS3(p)
    \/ Copy(p)
    \/ DeleteFromS3(p)

Next == \E p \in Callers : Step(p)

Spec == Init /\ [][Next]_vars

\* One caller alone: no other operation runs while its operation does.
NextSolo == Step("c1")

SpecSolo == Init /\ [][NextSolo]_vars

\* ------------------------------------------- insert called again
\* A caller starts insert.
CallInsert(p) ==
    /\ pc[p] = "idle"
    /\ Call(p)
    /\ args'[p].op = "insert"

\* A caller whose insert raised calls insert again with the same arguments:
\* insert keeps nothing from one invocation to the next, it starts from its
\* first statement with new locals.
Retry(p) ==
    /\ pc[p] = "done"
    /\ result[p].status = "error"
    /\ args[p].op = "insert"
    /\ calls < MaxCalls
    /\ earlier' = [earlier EXCEPT ![p] =
                     [made |-> TRUE, events |-> events[p], result |-> result[p]]]
    /\ pc' = [pc EXCEPT ![p] = FirstCall(args[p])]
    /\ table_data_types' = [table_data_types EXCEPT ![p] = << >>]
    /\ aws_bucket_path' = [aws_bucket_path EXCEPT ![p] = NoKey]
    /\ result' = [result EXCEPT ![p] = NoResult]
    /\ events' = [events EXCEPT ![p] = << >>]
    /\ calls' = calls + 1
    /\ UNCHANGED << args, warehouseVars, bucket, issued, staged, uploads,
                    mapperVars >>

StepRetry(p) ==
    \/ CallInsert(p)
    \/ Retry(p)
    \/ Truncate(p)
    \/ HasTable(p)
    \/ CreateSchema(p)
    \/ CreateTable(p)
    \/ UploadToS3(p)
    \/ Copy(p)
    \/ DeleteFromS3(p)

NextRetry == \E p \in Callers : StepRetry(p)

SpecRetry == Init /\ [][NextRetry]_vars

\* ------------------------------------------------- the type mapper alone
ColumnNames == {"a", "b", "c"}

\* dicts of at most MaxCols columns: the keys of a dict are distinct
Schemas ==
    UNION { { s \in [1 .. n -> ColumnNames \X Dtypes] :
                \A i, j \in 1 .. n : i # j => s[i][1] # s[j][1] } :
            n \in 0 .. MaxCols }

InitMap ==
    /\ InitCallers
    /\ dataframe_schema \in Schemas
    /\ mapped = Nothing

MapTypes ==
    /\ ~mapped.given
    /\ mapped' = Some(pandas_to_redshift_datatypes(dataframe_schema))
    /\ UNCHANGED << pc, args, table_data_types, aws_bucket_path, result, events,
                    warehouseVars, bucket, issued, staged, uploads, calls,
                    dataframe_schema, earlier >>

NextMap == MapTypes

SpecMap == InitMap /\ [][NextMap]_vars

\* ------------------------------------------------------------- properties
Returned(p) == pc[p] = "done" /\ result[p] = Ok
Kinds(p) == [ i \in 1 .. Len(events[p]) |-> events[p][i].kind ]
InBucket(key) == \E o \in bucket : o.key = key
RunsCopy(p) == args[p].op \in {"copy", "insert"}

\* C1: once a call to copy (on its own or from insert) has returned
\* normally, the object that call staged is not in the bucket.
C1_StagedObjectGoneAfterCopy ==
    \A p \in Callers :
        RunsCopy(p) /\ Returned(p) =>
            /\ aws_bucket_path[p] # NoKey
            /\ ~InBucket(aws_bucket_path[p])

C1_Witness ==
    \E p \in Callers :
        /\ args[p].op = "copy"
        /\ Returned(p)
        /\ Kinds(p) = << "upload", "copy", "delete" >>
        /\ aws_bucket_path[p] \in staged

\* C2: when the COPY statement fails, copy ends with that error, has not
\* called delete_from_s3, and the object it staged is still in the bucket.
C2_CopyFailureLeavesObject ==
    \A p \in Callers :
        (\E i \in 1 .. Len(events[p]) :
            events[p][i].kind = "copy" /\ ~events[p][i].ok) =>
            /\ pc[p] = "done"
            /\ result[p].status = "error" /\ result[p].step = "copy"
            /\ \A i \in 1 .. Len(events[p]) : events[p][i].kind # "delete"
            /\ aws_bucket_path[p] # NoKey
            /\ \E o \in bucket : o.key = aws_bucket_path[p] /\ o.body.by = p

C2_Witness ==
    \E p \in Callers :
        /\ Kinds(p) = << "upload", "copy" >>
        /\ ~events[p][2].ok
        /\ result[p] = Error("copy", "Failed")
        /\ InBucket(aws_bucket_path[p])

\* C3: when insert with truncate_table=True finds the table missing at its
\* TRUNCATE, it ends with the warehouse's table-missing error and that
\* invocation uploads nothing and executes no COPY.
C3_TruncateMissingTableStagesNothing ==
    \A p \in Callers :
        /\ args[p].op = "insert"
        /\ args[p].truncate_table
        /\ events[p] # << >>
        /\ events[p][1] = Event("truncate", FALSE, "UndefinedTable", NoKey, << >>)
        => /\ pc[p] = "done"
           /\ result[p] = Error("truncate", "UndefinedTable")
           /\ Len(events[p]) = 1
           /\ aws_bucket_path[p] = NoKey

C3_Witness ==
    \E p \in Callers :
        /\ args[p].op = "insert"
        /\ args[p].truncate_table
        /\ ~tableDef.exists
        /\ result[p] = Error("truncate", "UndefinedTable")
        /\ bucket = {}

\* C4 as stated: whenever insert provisions the table, CREATE TABLE uses
\* the caller's table_data_types for every mapping the caller supplies, and
\* the inferred types only when the caller supplied none.
C4_EveryExplicitMappingUsed ==
    \A p \in Callers :
        \A i \in 1 .. Len(events[p]) :
            /\ args[p].op = "insert"
            /\ events[p][i].kind = "create_table"
            /\ events[p][i].ok
            => events[p][i].cols =
                 IF args[p].table_data_types.given
                 THEN args[p].table_data_types.val
                 ELSE pandas_to_redshift_datatypes(args[p].data)

\* C4 amended: whenever insert provisions the table, CREATE TABLE uses the
\* caller's table_data_types for every non-empty mapping the caller
\* supplies, and the inferred types when the caller supplied no mapping or
\* an empty one.
C4_NonEmptyExplicitMappingUsed ==
    \A p \in Callers :
        \A i \in 1 .. Len(events[p]) :
            /\ args[p].op = "insert"
            /\ events[p][i].kind = "create_table"
            /\ events[p][i].ok
            => /\ tableDef.exists
               /\ events[p][i].cols =
                    IF /\ args[p].table_data_types.given
                       /\ args[p].table_data_types.val # << >>
                    THEN args[p].table_data_types.val
                    ELSE pandas_to_redshift_datatypes(args[p].data)

C4_Witness ==
    \E p \in Callers :
        /\ args[p].op = "insert"
        /\ args[p].table_data_types.given
        /\ args[p].table_data_types.val # << >>
        /\ \E i \in 1 .. Len(events[p]) :
              /\ events[p][i].kind = "create_table"
              /\ events[p][i].ok
              /\ events[p][i].cols = args[p].table_data_types.val
              /\ events[p][i].cols[2] = <<"id", "INTEGER">>
        /\ tableDef = Table(args[p].table_data_types.val)

\* C5: create_table for a table that exists ends with an error at
\* CREATE TABLE, and none of its statements changes the table's definition
\* or contents.
C5_CreateExistingTableRaises ==
    [][ \A p \in Callers :
          /\ pc[p] \in {"create_schema", "create_table"}
          /\ pc'[p] # pc[p]
          /\ tableDef.exists
          => /\ tableDef' = tableDef
             /\ rows' = rows
             /\ pc[p] = "create_table" =>
                  /\ pc'[p] = "done"
                  /\ result'[p].status = "error"
                  /\ result'[p].step = "create_table" ]_vars

C5_Witness ==
    \E p \in Callers :
        /\ args[p].op = "create_table"
        /\ Kinds(p) = << "create_schema", "create_table" >>
        /\ result[p] = Error("create_table", "DuplicateTable")
        /\ tableDef = OldTable

\* The warehouse type the documentation gives for a column type.
C6_Documented(d) ==
    CASE d.kind = "i" /\ d.bits = 64 -> "BIGINT"
      [] d.kind = "i" /\ d.bits = 32 -> "INTEGER"
      [] d.kind = "f" /\ d.bits = 64 -> "DOUBLE PRECISION"
      [] d.kind = "f" /\ d.bits = 32 -> "REAL"
      [] d.kind = "b" -> "BOOLEAN"
      [] d.kind = "M" -> "TIMESTAMP"
      [] d.kind = "MUTC" -> "TIMESTAMPTZ"
      [] d.kind = "m" -> "INTERVAL"
      [] OTHER -> "VARCHAR(MAX)"

\* C6: the type mapper returns the same column names in the same order,
\* each with the documented warehouse type of its column type, and
\* VARCHAR(MAX) for every other column type.
C6_MapTypesDocumented ==
    mapped.given =>
        /\ Len(mapped.val) = Len(dataframe_schema)
        /\ \A i \in 1 .. Len(dataframe_schema) :
              /\ mapped.val[i][1] = dataframe_schema[i][1]
              /\ mapped.val[i][2] = C6_Documented(dataframe_schema[i][2])

\* C7: the keys upload_to_s3 has returned are pairwise distinct (there are
\* as many keys as calls that returned), whatever the table name, bucket
\* and root prefix of the calls and however the calls interleave; and the
\* object a caller staged is its own until that caller deletes it.
C7_StagedKeysDistinct ==
    /\ Cardinality(staged) = uploads
    /\ \A p \in Callers :
          pc[p] \in {"copy", "delete"} =>
              \E o \in bucket :
                  o.key = aws_bucket_path[p] /\ o.body.by = p

C7_Witness ==
    \E p, q \in Callers :
        /\ p # q
        /\ pc[p] = "copy" /\ pc[q] = "copy"
        /\ args[p].aws_bucket_root = args[q].aws_bucket_root
        /\ aws_bucket_path[p] # aws_bucket_path[q]
        /\ InBucket(aws_bucket_path[p]) /\ InBucket(aws_bucket_path[q])

\* C8: an insert with ensure_exists=True that found the table absent and
\* returned normally has made exactly these calls in this order: the
\* existence check, CREATE SCHEMA, CREATE TABLE, the upload, COPY from the
\* key the upload returned and the delete of that key; and no COPY is ever
\* issued but after the upload of the key it names has returned.
C8_ProvisionStageCopyDelete ==
    \A p \in Callers :
        /\ ( /\ args[p].op = "insert"
             /\ args[p].ensure_exists
             /\ Returned(p)
             /\ \E i \in 1 .. Len(events[p]) :
                   events[p][i].kind = "has_table" /\ events[p][i].note = "absent" )
           => /\ Kinds(p) = << "has_table", "create_schema", "create_table",
                               "upload", "copy", "delete" >>
              /\ \A i \in 1 .. Len(events[p]) : events[p][i].ok
              /\ aws_bucket_path[p] # NoKey
              /\ events[p][4].key = aws_bucket_path[p]
              /\ events[p][5].key = aws_bucket_path[p]
              /\ events[p][6].key = aws_bucket_path[p]
        /\ \A i \in 1 .. Len(events[p]) :
              events[p][i].kind = "copy" =>
                  \E j \in 1 .. i - 1 :
                      /\ events[p][j].kind = "upload"
                      /\ events[p][j].ok
                      /\ events[p][j].key = events[p][i].key

C8_Witness ==
    \E p \in Callers :
        /\ args[p].op = "insert"
        /\ args[p].ensure_exists
        /\ Returned(p)
        /\ Len(events[p]) = 6
        /\ events[p][1].note = "absent"
        /\ events[p][3].cols =
             << <<"id", "BIGINT">>, <<"name", "VARCHAR(MAX)">>,
                <<"active", "BOOLEAN">> >>
        /\ events[p][6].kind = "delete"

\* C9: in an insert, a call that fails is the last call of the invocation,
\* insert ends with the error of that call, and no call is made twice.
C9_FirstFailureEndsInsert ==
    \A p \in Callers :
        args[p].op = "insert" =>
            /\ \A i \in 1 .. Len(events[p]) :
                  ~events[p][i].ok =>
                      /\ i = Len(events[p])
                      /\ pc[p] = "done"
                      /\ result[p] = Error(events[p][i].kind, events[p][i].note)
            /\ \A i, j \in 1 .. Len(events[p]) :
                  i # j => events[p][i].kind # events[p][j].kind

C9_Witness ==
    \E p \in Callers :
        /\ args[p].op = "insert"
        /\ Kinds(p) = << "truncate", "has_table", "upload" >>
        /\ result[p] = Error("upload", "Failed")
        /\ pc[p] = "done"

\* C10: with no other operation running, an insert with truncate_table=True
\* and ensure_exists=True makes no existence check and no create before its
\* TRUNCATE has succeeded; when TRUNCATE finds the table missing, insert
\* ends with that error after this one call and the table is still absent.
C10_TruncateBeforeEnsure ==
    \A p \in Callers :
        args[p].op = "insert" /\ args[p].truncate_table /\ args[p].ensure_exists =>
            /\ \A i \in 1 .. Len(events[p]) :
                  events[p][i].kind \in {"has_table", "create_schema", "create_table"}
                  => events[p][1].kind = "truncate" /\ events[p][1].ok
            /\ ( /\ events[p] # << >>
                 /\ events[p][1] =
                      Event("truncate", FALSE, "UndefinedTable", NoKey, << >>) )
               => /\ Len(events[p]) = 1
                  /\ pc[p] = "done"
                  /\ result[p] = Error("truncate", "UndefinedTable")
                  /\ ~tableDef.exists

C10_Witness ==
    \E p \in Callers :
        /\ args[p].op = "insert"
        /\ args[p].truncate_table
        /\ args[p].ensure_exists
        /\ pc[p] = "done"
        /\ result[p] = Error("truncate", "UndefinedTable")
        /\ Kinds(p) = << "truncate" >>
        /\ ~tableDef.exists

\* The calls of caller p's operation that are of one of these kinds.
Made(p, kinds) == { i \in 1 .. Len(events[p]) : events[p][i].kind \in kinds }
Provisioning == {"create_schema", "create_table"}
AnsweredAt(p, i, note) ==
    /\ events[p][i].kind = "has_table"
    /\ events[p][i].ok
    /\ events[p][i].note = note

\* C11: an insert sends CREATE SCHEMA and CREATE TABLE at most once each,
\* and only under ensure_exists after its existence check answered absent;
\* after the check answered present it sends neither, and no call of that
\* insert changes the table's column definitions.
C11_CreatedOnlyWhenAbsent ==
    /\ [](\A p \in Callers :
            args[p].op = "insert" =>
                /\ Cardinality(Made(p, {"create_schema"})) <= 1
                /\ Cardinality(Made(p, {"create_table"})) <= 1
                /\ \A i \in Made(p, Provisioning) :
                      /\ args[p].ensure_exists
                      /\ \E j \in 1 .. i - 1 : AnsweredAt(p, j, "absent")
                /\ (\E j \in 1 .. Len(events[p]) : AnsweredAt(p, j, "present"))
                      => Made(p, Provisioning) = {})
    /\ [][ \A p \in Callers :
             /\ args[p].op = "insert"
             /\ events'[p] # events[p]
             /\ \E j \in 1 .. Len(events'[p]) : AnsweredAt(p, j, "present")'
             => tableDef' = tableDef ]_vars

C11_Witness ==
    \E p \in Callers :
        /\ args[p].op = "insert"
        /\ args[p].ensure_exists
        /\ Returned(p)
        /\ Kinds(p) = << "has_table", "upload", "copy", "delete" >>
        /\ events[p][1].note = "present"
        /\ tableDef = OldTable
        /\ [ i \in 1 .. Len(tableDef.cols) |-> tableDef.cols[i][1] ]
             # [ i \in 1 .. Len(args[p].data) |-> args[p].data[i][1] ]

\* The keys of a dict, in its order.
Names(dict) == [ i \in 1 .. Len(dict) |-> dict[i][1] ]

\* C12 as stated: every table insert provisions has its columns in the
\* order of the DataFrame's columns, with explicit and with inferred types:
\* two columns of the table that are columns of the DataFrame stand in the
\* table as they stand in the DataFrame.
C12_TableInDataFrameOrder ==
    \A p \in Callers :
        \A e \in Made(p, {"create_table"}) :
            args[p].op = "insert" /\ events[p][e].ok =>
                \A i, j \in 1 .. Len(events[p][e].cols) :
                    \A k, l \in 1 .. Len(args[p].data) :
                        /\ i < j
                        /\ args[p].data[k][1] = events[p][e].cols[i][1]
                        /\ args[p].data[l][1] = events[p][e].cols[j][1]
                        => k < l

\* C12 amended: a table insert provisions with inferred types (no mapping
\* or an empty one supplied) has exactly the DataFrame's columns in the
\* DataFrame's order; with a non-empty explicit mapping it has the mapping's
\* columns in the mapping's order.
C12_TableInOrderOfItsTypes ==
    \A p \in Callers :
        \A e \in Made(p, {"create_table"}) :
            args[p].op = "insert" /\ events[p][e].ok =>
                /\ tableDef.exists
                /\ Names(tableDef.cols) = Names(events[p][e].cols)
                /\ Names(events[p][e].cols) =
                     IF Falsy(args[p].table_data_types)
                     THEN Names(args[p].data)
                     ELSE Names(args[p].table_data_types.val)

C12_Witness ==
    \E p \in Callers :
        /\ args[p].op = "insert"
        /\ ~args[p].table_data_types.given
        /\ \E e \in Made(p, {"create_table"}) : events[p][e].ok
        /\ Names(tableDef.cols) = << "id", "name", "active" >>
        /\ Names(tableDef.cols) = Names(args[p].data)

\* Two inserts both found the table absent and both sent CREATE TABLE.
Race(p, q) ==
    /\ p # q
    /\ \A r \in {p, q} :
          /\ args[r].op = "insert"
          /\ \E j \in 1 .. Len(events[r]) : AnsweredAt(r, j, "absent")
          /\ Made(r, {"create_table"}) # {}

\* The outcome of the CREATE TABLE an insert sent.
Created(r) == events[r][CHOOSE i \in Made(r, {"create_table"}) : TRUE]

\* C13: when two inserts with ensure_exists have both found the same table
\* absent and both sent CREATE TABLE, and the warehouse has answered both
\* statements, exactly one CREATE TABLE has succeeded and the other has
\* failed because the table already exists; the insert that lost has ended
\* with that error and has staged nothing.
C13_RaceOneCreates ==
    \A p, q \in Callers :
        /\ Race(p, q)
        /\ Created(p).note # "Failed"
        /\ Created(q).note # "Failed"
        => /\ Created(p).ok \/ Created(q).ok
           /\ Created(p).ok =>
                /\ ~Created(q).ok
                /\ Created(q).note = "DuplicateTable"
                /\ pc[q] = "done"
                /\ result[q] = Error("create_table", "DuplicateTable")
                /\ Made(q, {"upload"}) = {}
                /\ aws_bucket_path[q] = NoKey
                /\ tableDef = Table(Created(p).cols)

C13_Witness ==
    \E p, q \in Callers :
        /\ Race(p, q)
        /\ args[p].ensure_exists /\ args[q].ensure_exists
        /\ Created(p).ok
        /\ Created(q).note = "DuplicateTable"
        /\ result[q] = Error("create_table", "DuplicateTable")
        /\ aws_bucket_path[q] = NoKey

\* A caller is in create_table, called on its own with no column types.
CreatesNoColumns(p) ==
    /\ args[p].op = "create_table"
    /\ args[p].table_data_types.val = << >>

\* C14: create_table called with an empty mapping of column types never
\* returns normally: its CREATE TABLE statement raises, the error ends the
\* call, and the statement creates no table.
C14_EmptyColumnTypesFails ==
    /\ [](\A p \in Callers :
            CreatesNoColumns(p) =>
                /\ ~Returned(p)
                /\ \A i \in Made(p, {"create_table"}) : ~events[p][i].ok)
    /\ [][ \A p \in Callers :
             /\ CreatesNoColumns(p)
             /\ pc[p] = "create_table"
             /\ events'[p] # events[p]
             => /\ tableDef' = tableDef
                /\ pc'[p] = "done"
                /\ result'[p].status = "error"
                /\ result'[p].step = "create_table" ]_vars

C14_Witness ==
    \E p \in Callers :
        /\ CreatesNoColumns(p)
        /\ pc[p] = "done"
        /\ result[p] = Error("create_table", "SyntaxError")
        /\ Kinds(p) = << "create_schema", "create_table" >>
        /\ tableDef = NoTable

\* The keys upload_to_s3 made in a sequence of collaborator calls.
KeysOf(evs) == { evs[i].key : i \in { j \in 1 .. Len(evs) : evs[j].kind = "upload" } }

Last(p) == events[p][Len(events[p])]

\* C16: when an operation running alone has ended with the error of
\* delete_from_s3, its COPY had succeeded and nothing followed the failed
\* delete: the rows COPY loaded are in the table and the staged object is
\* in the bucket.
C16_DeleteFailureKeepsRowsAndObject ==
    \A p \in Callers :
        RunsCopy(p) /\ result[p].status = "error" /\ result[p].step = "delete" =>
            /\ pc[p] = "done"
            /\ Len(events[p]) >= 3
            /\ Last(p).kind = "delete" /\ ~Last(p).ok
            /\ Last(p).key = aws_bucket_path[p]
            /\ events[p][Len(events[p]) - 1].kind = "copy"
            /\ events[p][Len(events[p]) - 1].ok
            /\ events[p][Len(events[p]) - 1].key = aws_bucket_path[p]
            /\ aws_bucket_path[p] \in rows
            /\ [key |-> aws_bucket_path[p],
                body |-> [data |-> args[p].data, by |-> p]] \in bucket

C16_Witness ==
    \E p \in Callers :
        /\ args[p].op = "insert"
        /\ pc[p] = "done"
        /\ result[p] = Error("delete", "Failed")
        /\ Kinds(p) = << "upload", "copy", "delete" >>
        /\ rows = {aws_bucket_path[p]}
        /\ InBucket(aws_bucket_path[p])

\* The object a caller's running operation staged.
Staged(p) ==
    [key |-> aws_bucket_path[p], body |-> [data |-> args[p].data, by |-> p]]

\* C17: under every interleaving, an operation calls delete at most once
\* and with the key its own upload_to_s3 returned; an object leaves the
\* bucket or changes only in the delete step of the operation that staged
\* it; and every COPY names the key of its own operation and finds there
\* the object that operation staged.
C17_OwnObjectOnly ==
    /\ [](\A p \in Callers :
            RunsCopy(p) =>
                /\ Cardinality(Made(p, {"delete"})) <= 1
                /\ Cardinality(Made(p, {"upload"})) <= 1
                /\ \A i \in Made(p, {"copy", "delete"}) :
                      /\ events[p][i].key = aws_bucket_path[p]
                      /\ \E j \in 1 .. i - 1 :
                            /\ events[p][j].kind = "upload"
                            /\ events[p][j].ok
                            /\ events[p][j].key = events[p][i].key)
    /\ [][ /\ \A o \in bucket \ bucket' :
                \E p \in Callers :
                    /\ pc[p] = "delete"
                    /\ events'[p] # events[p]
                    /\ o = Staged(p)
                    /\ bucket' = bucket \ {o}
           /\ \A p \in Callers :
                pc[p] = "copy" /\ pc'[p] = "delete" => Staged(p) \in bucket
         ]_vars

C17_Witness ==
    \E p, q \in Callers :
        /\ p # q
        /\ RunsCopy(p) /\ Returned(p)
        /\ RunsCopy(q) /\ pc[q] = "delete"
        /\ aws_bucket_path[p] # aws_bucket_path[q]
        /\ ~InBucket(aws_bucket_path[p])
        /\ Staged(q) \in bucket
        /\ rows = {aws_bucket_path[p], aws_bucket_path[q]}

\* An insert's TRUNCATE has been executed.
Truncated(p) ==
    \E i \in Made(p, {"truncate"}) : events[p][i].ok

\* C18: while no table is dropped, an insert whose TRUNCATE was executed
\* sends no CREATE SCHEMA and no CREATE TABLE: its existence check, if it
\* makes one, answers present, and it never ends with an error of the
\* table's creation.
C18_NeverTruncateAndCreate ==
    \A p \in Callers :
        args[p].op = "insert" /\ Truncated(p) =>
            /\ Made(p, Provisioning) = {}
            /\ \A j \in Made(p, {"has_table"}) :
                  events[p][j].ok => events[p][j].note = "present"
            /\ result[p].step \notin Provisioning
            /\ tableDef.exists

C18_Witness ==
    \E p \in Callers :
        /\ args[p].op = "insert"
        /\ args[p].truncate_table /\ args[p].ensure_exists
        /\ Returned(p)
        /\ Kinds(p) = << "truncate", "has_table", "upload", "copy", "delete" >>
        /\ events[p][2].note = "present"

====
